---- MODULE Spec2Model ----
(***************************************************************************)
(* The instruction DAG engine of msccl/language/instruction_dag.py:        *)
(* the slot tracker and graph builder (InstructionDAG._read / _write /     *)
(* the add_ calls), convert_set_list, dependency inference, the fusion     *)
(* passes with remove_op, the metadata pass, buffer lowering and the       *)
(* replicator (lower_pt1 / lower_pt2).                                     *)
(*                                                                         *)
(* An Op is a record; node identities are the positions 1..Len(nodes) in   *)
(* creation order, None (0) is Python's None.  `next` is a Python set      *)
(* while the graph is built and a list once convert_set_list reached the   *)
(* node (is_list); the order a set is listed in is not determined by the   *)
(* program (Op hashes by identity), so every conversion picks any order.   *)
(***************************************************************************)
EXTENDS Integers, Sequences, FiniteSets, TLC

\* ------------------------------------------------------------------ bounds
NumRanks == 2
NumIndex == 2
MaxSize == 2
NumTbs == 2
NumChannels == 1
MaxStarts == 2
\* SpecBuild: calls in any order
MaxBuildOps == 3
\* Spec: whole front-end operations (a transfer is a send and its receive)
MaxTransfers == 2
MaxLocal == 1
\* SpecForward: chains of forwarded one-slot transfers
MaxForwards == 3
NumFwdChannels == 2
\* SpecLower: the lowering calls on threadblocks filled by the front end
MaxInstances == 2
MaxTbOps == 2
MaxTbOpsTotal == 3
MaxCalls == 2
\* SpecRestart: add_start calls made after other calls, and the ops around them
MaxRestarts == 1
MaxRestartOps == 4

None == 0
Ranks == 0 .. (NumRanks - 1)
Buffers == {"input"}
Tbs == 0 .. (NumTbs - 1)
Channels == 0 .. (NumChannels - 1)
Slots == Ranks \X Buffers \X (0 .. (NumIndex - 1))

\* ChunkRef(rank, buffer, index, size) of msccl.language.types
ChunkRef(rank, buffer, index, size) ==
  [rank |-> rank, buffer |-> buffer, index |-> index, size |-> size]

Refs ==
  {ChunkRef(r, b, i, s) : r \in Ranks, b \in Buffers,
                          i \in 0 .. (NumIndex - 1), s \in 1 .. MaxSize}

ValidRefs == {c \in Refs : c.index + c.size <= NumIndex}

VARIABLES
  nodes,         \* every Op object created so far, in creation order
  operations,    \* self.operations: ordered dict slot -> first op, as a list of entries
  last_writer,   \* self.last_writer: slot -> op (None: the key is absent)
  last_readers,  \* self.last_readers: slot -> list of ops
  pc,            \* where the caller's pipeline stands
  done,          \* the passes that have run
  frontier,      \* a fusion pass's frontier list
  visited,       \* a fusion pass's visited set
  root,          \* a fusion pass's place in self.operations.items()
  nodes0,        \* history: the graph optimize() was called on
  src_writer,    \* history: per node, the last writers of the slots it read when built
  tbs,           \* self.tbs: per rank an ordered dict tbid -> Threadblock, as a list of entries
  buffers,       \* self.buffers: per rank an ordered dict name -> Buffer, as a list of entries
  num_channels,  \* self.num_channels: per rank
  instanced_tbs, \* self.instanced_tbs: per rank an ordered dict (None: not assigned yet)
  gpus,          \* what _lower_tbs returned (None: nothing yet)
  calls          \* history: the lowering calls made so far, with arguments and outcome

lowvars == <<tbs, buffers, num_channels, instanced_tbs, gpus, calls>>

vars == <<nodes, operations, last_writer, last_readers, pc, done, frontier,
          visited, root, nodes0, src_writer, lowvars>>

\* Op(inst, rank, src, dst, next=set(), prev=set(), tb=tb, channel=ch): the
\* dataclass defaults are depends [], step -1, tb -1, chunk_step -1,
\* priority -1, recv_match None, send_match None, channel -1.
Op(inst, rank, src, dst, tb, channel) ==
  [inst |-> inst, rank |-> rank, src |-> src, dst |-> dst,
   depends |-> <<>>, step |-> -1, tb |-> tb,
   prev |-> {}, next |-> <<>>, is_list |-> FALSE,
   chunk_step |-> -1, priority |-> -1,
   recv_match |-> None, send_match |-> None, channel |-> channel]

SeqToSet(s) == {s[k] : k \in 1 .. Len(s)}

\* set.add on a `next` still held as a set
SetAdd(s, x) == IF x \in SeqToSet(s) THEN s ELSE Append(s, x)

\* `slot in self.operations`
InOperations(ops, slot) == \E k \in 1 .. Len(ops) : ops[k].slot = slot

\* self.operations[slot] = op  (an existing key keeps its place in the dict)
SetOperation(ops, slot, op) ==
  IF InOperations(ops, slot)
  THEN [k \in 1 .. Len(ops) |->
          IF ops[k].slot = slot THEN [slot |-> slot, op |-> op] ELSE ops[k]]
  ELSE Append(ops, [slot |-> slot, op |-> op])

\* The builder's state as one value, threaded through _read and _write.
Builder ==
  [nodes |-> nodes, operations |-> operations, last_writer |-> last_writer,
   last_readers |-> last_readers, prev_ops |-> {}, ok |-> TRUE]

\* for prev_op in prev_ops: prev_op.next.add(op); op.prev.add(prev_op)
LinkPrevOps(ns, prev_ops, op) ==
  [k \in 1 .. Len(ns) |->
     LET a == IF k \in prev_ops
              THEN [ns[k] EXCEPT !.next = SetAdd(@, op)] ELSE ns[k]
     IN  IF k = op THEN [a EXCEPT !.prev = @ \cup prev_ops] ELSE a]

\* A _write that has lost its assertion.
WriteUnchecked(g, slot, read) == TRUE

\* assert slot in self.last_writer, for a reduce
WriteAllowed(g, slot, read) == read => g.last_writer[slot] # None

\* A _write that looks at the last writer only and forgets the readers.
WritePrevOpsWriterOnly(g, slot) ==
  IF g.last_writer[slot] # None THEN {g.last_writer[slot]} ELSE {}

\* What one slot adds to prev_ops in _write: the active readers, else the
\* last writer if there is one.
WritePrevOps(g, slot) ==
  LET readers == g.last_readers[slot]
  IN  IF Len(readers) > 0 THEN SeqToSet(readers)
      ELSE IF g.last_writer[slot] # None THEN {g.last_writer[slot]}
      ELSE {}

\* The loop of _write over range(index, index + size); n slots are left.
RECURSIVE WriteSlots(_, _, _, _, _, _, _)
WriteSlots(g, rank, buffer, i, n, op, read) ==
  IF n = 0 THEN g
  ELSE
    LET slot == <<rank, buffer, i>>
    IN  IF ~WriteAllowed(g, slot, read)
        THEN [g EXCEPT !.ok = FALSE]
        ELSE
          WriteSlots(
            [g EXCEPT
               !.operations = IF InOperations(@, slot) THEN @
                              ELSE SetOperation(@, slot, op),
               !.prev_ops = @ \cup WritePrevOps(g, slot),
               !.last_writer[slot] = op,
               !.last_readers[slot] = <<>>],
            rank, buffer, i + 1, n - 1, op, read)

\* InstructionDAG._write
write(g, rank, buffer, index, size, op, read) ==
  IF ~g.ok THEN g
  ELSE
    LET w == WriteSlots([g EXCEPT !.prev_ops = {}], rank, buffer, index, size, op, read)
    IN  IF ~w.ok THEN w
        ELSE [w EXCEPT !.nodes = LinkPrevOps(@, w.prev_ops, op)]

\* The loop of _read over range(index, index + size); n slots are left.
RECURSIVE ReadSlots(_, _, _, _, _, _)
ReadSlots(g, rank, buffer, i, n, op) ==
  IF n = 0 THEN g
  ELSE
    LET slot == <<rank, buffer, i>>
    IN  IF g.last_writer[slot] = None
        THEN [g EXCEPT !.ok = FALSE]
        ELSE
          ReadSlots(
            [g EXCEPT !.prev_ops = @ \cup {g.last_writer[slot]},
                      !.last_readers[slot] = Append(@, op)],
            rank, buffer, i + 1, n - 1, op)

\* A _read that registers the reader but does not link it to the writers.
read_unlinked(g, rank, buffer, index, size, op) ==
  IF ~g.ok THEN g
  ELSE ReadSlots([g EXCEPT !.prev_ops = {}], rank, buffer, index, size, op)

\* InstructionDAG._read
read(g, rank, buffer, index, size, op) ==
  IF ~g.ok THEN g
  ELSE
    LET r == ReadSlots([g EXCEPT !.prev_ops = {}], rank, buffer, index, size, op)
    IN  IF ~r.ok THEN r
        ELSE [r EXCEPT !.nodes = LinkPrevOps(@, r.prev_ops, op)]

\* A new Op object joins the heap; its identity is its position.
NewOp(g, o) == [g EXCEPT !.nodes = Append(@, o)]

NextId == Len(nodes) + 1

\* The state a builder call leaves: an AssertionError ends the compilation.
Commit(g) ==
  /\ nodes' = g.nodes
  /\ operations' = g.operations
  /\ last_writer' = g.last_writer
  /\ last_readers' = g.last_readers
  /\ pc' = IF g.ok THEN "build" ELSE "failed"
  /\ src_writer' =
       LET o == g.nodes[Len(g.nodes)]
       IN  Append(src_writer,
                  IF o.inst \in {"send", "copy", "reduce"}
                  THEN {last_writer[<<o.rank, o.src.buffer, i>>] :
                          i \in o.src.index .. (o.src.index + o.src.size - 1)}
                  ELSE {})
  /\ UNCHANGED <<done, frontier, visited, root, nodes0, lowvars>>

NumStarts == Cardinality({k \in 1 .. Len(nodes) : nodes[k].inst = "start"})
NumOps == Len(nodes) - NumStarts

\* InstructionDAG.add_start
add_start(rank, buffer, index, ref) ==
  LET slot == <<rank, buffer, index>>
      op == NextId
      g == NewOp(Builder, Op("start", rank, ref, ref, -1, -1))
  IN  [g EXCEPT !.operations = SetOperation(@, slot, op),
                !.last_writer[slot] = op]

\* MscclInstructionDAG.add_copy
add_copy(rank, send_ref, recv_ref, tb, ch) ==
  LET op == NextId
      size == recv_ref.size
      g0 == NewOp(Builder, Op("copy", rank, send_ref, recv_ref, tb, ch))
      g1 == read(g0, rank, send_ref.buffer, send_ref.index, size, op)
  IN  write(g1, rank, recv_ref.buffer, recv_ref.index, size, op, FALSE)

\* MscclInstructionDAG.add_reduce
add_reduce(rank, send_ref, recv_ref, tb, ch) ==
  LET op == NextId
      size == recv_ref.size
      g0 == NewOp(Builder, Op("reduce", rank, send_ref, recv_ref, tb, ch))
      g1 == read(g0, rank, send_ref.buffer, send_ref.index, size, op)
  IN  write(g1, rank, recv_ref.buffer, recv_ref.index, size, op, TRUE)

\* MscclInstructionDAG.add_send
add_send(rank, send_ref, recv_ref, tb, ch) ==
  LET op == NextId
      g0 == NewOp(Builder, Op("send", rank, send_ref, recv_ref, tb, ch))
  IN  read(g0, rank, send_ref.buffer, send_ref.index, send_ref.size, op)

\* MscclInstructionDAG.add_recv
add_recv(rank, send_ref, recv_ref, tb, ch, send_op) ==
  LET op == NextId
      g0 == NewOp(Builder, Op("recv", rank, send_ref, recv_ref, tb, ch))
      g1 == write(g0, rank, recv_ref.buffer, recv_ref.index, recv_ref.size, op, FALSE)
  IN  IF g1.ok THEN [g1 EXCEPT !.nodes[op].send_match = send_op] ELSE g1

\* MscclInstructionDAG.add_recv_reduce_copy
add_recv_reduce_copy(rank, send_ref, recv_ref, tb, ch, send_op) ==
  LET op == NextId
      g0 == NewOp(Builder, Op("recv_reduce_copy", rank, send_ref, recv_ref, tb, ch))
      g1 == write(g0, rank, recv_ref.buffer, recv_ref.index, recv_ref.size, op, TRUE)
  IN  IF g1.ok THEN [g1 EXCEPT !.nodes[op].send_match = send_op] ELSE g1

\* The front end's half of the pairing: after add_recv / add_recv_reduce_copy
\* returned the receive, it stores it as the send's recv_match.
SetRecvMatch(g, send_op) ==
  IF g.ok THEN [g EXCEPT !.nodes[send_op].recv_match = Len(g.nodes)] ELSE g

\* ------------------------------------------------------- the caller's calls
\* The front end seeds the slots with add_start in (rank, index) order before
\* it builds anything else, pairs every receive with a send it built before on
\* the peer rank with the send's operands, gives both operands of an op the
\* same size, and numbers a rank's execution units from 0 as it first uses them.
\* The ranks are interchangeable, so the first slot seeded is one of rank 0.
UnmatchedSends ==
  {k \in 1 .. Len(nodes) : nodes[k].inst = "send" /\ nodes[k].recv_match = None}

SlotLess(a, b) == a[1] < b[1] \/ (a[1] = b[1] /\ a[3] < b[3])

TbInUse(rank, tb) ==
  \A t \in 0 .. (tb - 1) :
    \E k \in 1 .. Len(nodes) : nodes[k].rank = rank /\ nodes[k].tb = t

NumLocal ==
  Cardinality({k \in 1 .. Len(nodes) : nodes[k].inst \in {"copy", "reduce"}})

NumSends == Cardinality({k \in 1 .. Len(nodes) : nodes[k].inst = "send"})

Start ==
  /\ pc = "build"
  /\ NumStarts < MaxStarts
  /\ NumOps = 0
  /\ \E s \in Slots :
       /\ operations = <<>> => s[1] = 0
       /\ \A k \in 1 .. Len(operations) : SlotLess(operations[k].slot, s)
       /\ Commit(add_start(s[1], s[2], s[3], ChunkRef(s[1], s[2], s[3], 1)))

Copy(a, b, tb, ch) ==
  /\ pc = "build"
  /\ a.rank = b.rank
  /\ a.size = b.size
  /\ TbInUse(a.rank, tb)
  /\ Commit(add_copy(a.rank, a, b, tb, ch))

Reduce(a, b, tb, ch) ==
  /\ pc = "build"
  /\ a.rank = b.rank
  /\ a.size = b.size
  /\ TbInUse(a.rank, tb)
  /\ Commit(add_reduce(a.rank, a, b, tb, ch))

Send(a, b, tb, ch) ==
  /\ pc = "build"
  /\ a.rank # b.rank
  /\ a.size = b.size
  /\ TbInUse(a.rank, tb)
  /\ Commit(add_send(a.rank, a, b, tb, ch))

Recv(s, tb) ==
  /\ pc = "build"
  /\ TbInUse(nodes[s].dst.rank, tb)
  /\ Commit(SetRecvMatch(add_recv(nodes[s].dst.rank, nodes[s].src, nodes[s].dst,
                                  tb, nodes[s].channel, s), s))

RecvReduceCopy(s, tb) ==
  /\ pc = "build"
  /\ TbInUse(nodes[s].dst.rank, tb)
  /\ Commit(SetRecvMatch(add_recv_reduce_copy(nodes[s].dst.rank, nodes[s].src,
                                              nodes[s].dst, tb, nodes[s].channel, s), s))

\* SpecBuild: the six calls in any order.
BuildCopy ==
  /\ NumOps < MaxBuildOps
  /\ \E a \in ValidRefs, b \in ValidRefs, tb \in Tbs, ch \in Channels : Copy(a, b, tb, ch)

BuildReduce ==
  /\ NumOps < MaxBuildOps
  /\ \E a \in ValidRefs, b \in ValidRefs, tb \in Tbs, ch \in Channels : Reduce(a, b, tb, ch)

BuildSend ==
  /\ NumOps < MaxBuildOps
  /\ \E a \in ValidRefs, b \in ValidRefs, tb \in Tbs, ch \in Channels : Send(a, b, tb, ch)

BuildRecv ==
  /\ NumOps < MaxBuildOps
  /\ \E s \in UnmatchedSends, tb \in Tbs : Recv(s, tb)

BuildRecvReduceCopy ==
  /\ NumOps < MaxBuildOps
  /\ \E s \in UnmatchedSends, tb \in Tbs : RecvReduceCopy(s, tb)

\* Spec: whole front-end operations: transfers, whose receive is built right
\* after its send, and then local copies.
LocalCopy ==
  /\ UnmatchedSends = {}
  /\ NumLocal < MaxLocal
  /\ \E a \in ValidRefs, b \in ValidRefs, tb \in Tbs, ch \in Channels : Copy(a, b, tb, ch)

TransferSend ==
  /\ UnmatchedSends = {}
  /\ NumSends < MaxTransfers
  /\ NumLocal = 0
  /\ \E a \in ValidRefs, b \in ValidRefs, tb \in Tbs, ch \in Channels : Send(a, b, tb, ch)

TransferRecv ==
  \E s \in UnmatchedSends, tb \in Tbs : Recv(s, tb)

TransferRecvReduceCopy ==
  \E s \in UnmatchedSends, tb \in Tbs : RecvReduceCopy(s, tb)

\* SpecForward: up to three one-slot transfers on unit 0 of each rank, over
\* two channels (numbered from 0 as a rank first uses them): long enough for
\* a receive that two sends forward, and for a send between two receives.
FwdChannels == 0 .. (NumFwdChannels - 1)

FwdRefs == {c \in ValidRefs : c.size = 1}

ChannelInUse(rank, ch) ==
  \A c \in 0 .. (ch - 1) :
    \E k \in 1 .. Len(nodes) : nodes[k].rank = rank /\ nodes[k].channel = c

ForwardSend ==
  /\ UnmatchedSends = {}
  /\ NumSends < MaxForwards
  /\ \E a \in FwdRefs, b \in FwdRefs, ch \in FwdChannels :
       /\ ChannelInUse(a.rank, ch)
       /\ Send(a, b, 0, ch)

ForwardRecv ==
  \E s \in UnmatchedSends : Recv(s, 0)

ForwardRecvReduceCopy ==
  \E s \in UnmatchedSends : RecvReduceCopy(s, 0)

\* SpecRestart: add_start may come again once other calls were made, on a
\* slot that has a writer already; transfers of one chunk surround it.
NumRestarts ==
  Cardinality({k \in 1 .. Len(nodes) :
                 /\ nodes[k].inst = "start"
                 /\ \E j \in 1 .. (k - 1) : nodes[j].inst # "start"})

Restart ==
  /\ pc = "build"
  /\ NumOps > 0
  /\ NumRestarts < MaxRestarts
  /\ \E s \in Slots :
       /\ last_writer[s] # None
       /\ Commit(add_start(s[1], s[2], s[3], ChunkRef(s[1], s[2], s[3], 1)))

RestartSend ==
  /\ NumOps < MaxRestartOps
  /\ \E a \in FwdRefs, b \in FwdRefs : Send(a, b, 0, 0)

RestartRecv ==
  /\ NumOps < MaxRestartOps
  /\ \E s \in UnmatchedSends : Recv(s, 0)

\* ------------------------------------------------------------ graph helpers
Nodes(ns) == 1 .. Len(ns)

Succ(ns, k) == SeqToSet(ns[k].next)

Max(S) == CHOOSE m \in S : \A x \in S : x <= m

\* The nodes reached from the set R along next.
RECURSIVE ReachFrom(_, _, _)
ReachFrom(ns, R, seen) ==
  LET new == (R \cup UNION {Succ(ns, k) : k \in R}) \ seen
  IN  IF new = {} THEN seen ELSE ReachFrom(ns, new, seen \cup new)

Reach(ns, R) == ReachFrom(ns, R, {})

\* All the orders a Python set (or dict keyed by Op) may be listed in.
Perms(S) ==
  {q \in [1 .. Cardinality(S) -> S] : \A i, j \in DOMAIN q : i # j => q[i] # q[j]}

\* One choice per key of fs, a function from keys to sets of options.
RECURSIVE Choices(_, _)
Choices(fs, D) ==
  IF D = {} THEN {<<>>}
  ELSE LET k == CHOOSE x \in D : TRUE
       IN  {(k :> v) @@ f : v \in fs[k], f \in Choices(fs, D \ {k})}

\* The op of every entry of self.operations, in the dict's order.
Registry(ops) == [k \in 1 .. Len(ops) |-> ops[k].op]

\* ---------------------------------------------------------- convert_set_list
\* The ops list of convert_set_list is seeded with the successors of the
\* registered start ops and with the registered ops that are neither start nor
\* copy; every node the walk reaches gets its next listed, every registered
\* start op too.
ConvertSeeds(ns, ops) ==
  UNION {IF ns[o].inst = "start" THEN Succ(ns, o)
         ELSE IF ns[o].inst # "copy" THEN {o} ELSE {} : o \in SeqToSet(Registry(ops))}

ConvertListed(ns, ops) ==
  {o \in SeqToSet(Registry(ops)) : ns[o].inst = "start"}
    \cup Reach(ns, ConvertSeeds(ns, ops))

\* The graphs convert_set_list may leave: one per order each list(op.next)
\* may come in.
Listings(ns, ops) ==
  LET L == ConvertListed(ns, ops)
  IN  {[k \in Nodes(ns) |->
          IF k \in L
          THEN [ns[k] EXCEPT !.next = order[k], !.is_list = TRUE]
          ELSE ns[k]] :
       order \in Choices([k \in L |-> Perms(Succ(ns, k))], L)}

\* InstructionDAG.convert_set_list
convert_set_list == nodes' \in Listings(nodes, operations)

ConvertSetList ==
  /\ pc = "build"
  /\ UnmatchedSends = {}
  /\ convert_set_list
  /\ pc' = "ready"
  /\ UNCHANGED <<operations, last_writer, last_readers, done, frontier, visited,
                 root, nodes0, src_writer, lowvars>>

\* --------------------------------------------------------- execution units
\* The nodes the passes walk: everything reached from a registered op.
InGraph(ns, ops) == Reach(ns, SeqToSet(Registry(ops)))

Scheduled(ns, ops) == {k \in InGraph(ns, ops) : ns[k].inst # "start"}

\* Op.is_send of msccl.language.types: the send family.
is_send(o) ==
  o.inst \in {"send", "recv_copy_send", "recv_reduce_send", "recv_reduce_copy_send"}

\* The orders the scheduler may run the nodes in: a node comes after its
\* predecessors and a paired receive after its send.
Before(ns, a, b) ==
  a # b /\ (b \in Succ(ns, a) \/ (is_send(ns[a]) /\ ns[a].recv_match = b))

Schedules(ns, S) ==
  {q \in Perms(S) : \A i, j \in DOMAIN q : i < j => ~Before(ns, q[j], q[i])}

\* The step of a node is its place among the nodes of its execution unit.
StepIn(ns, q, i) ==
  Cardinality({j \in 1 .. (i - 1) :
                 ns[q[j]].rank = ns[q[i]].rank /\ ns[q[j]].tb = ns[q[i]].tb})

assign_steps(ns, q) ==
  [k \in Nodes(ns) |->
     IF \E i \in DOMAIN q : q[i] = k
     THEN [ns[k] EXCEPT !.step = StepIn(ns, q, CHOOSE i \in DOMAIN q : q[i] = k)]
     ELSE ns[k]]

AssignSteps ==
  /\ pc = "ready"
  /\ "steps" \notin done
  /\ \E q \in Schedules(nodes, Scheduled(nodes, operations)) :
       nodes' = assign_steps(nodes, q)
  /\ done' = done \cup {"steps"}
  /\ UNCHANGED <<operations, last_writer, last_readers, pc, frontier, visited,
                 root, nodes0, src_writer, lowvars>>

\* ------------------------------------------------------ _infer_dependencies
\* The comparison of steps turned round: the earliest op of a tb is kept.
Earlier(ns, dep_op, kept) == ns[dep_op].step < ns[kept].step

\* dep_op.step > depends[tb].step
Later(ns, dep_op, kept) == ns[dep_op].step > ns[kept].step

\* The dict `depends` after the loop over list(op.prev) has taken prev[1..i]:
\* its values in insertion order, one per tb.
RECURSIVE DependsDict(_, _, _)
DependsDict(ns, prev, i) ==
  IF i = 0 THEN <<>>
  ELSE
    LET d == DependsDict(ns, prev, i - 1)
        dep_op == prev[i]
        at == {j \in DOMAIN d : ns[d[j]].tb = ns[dep_op].tb}
    IN  IF ns[dep_op].inst = "start" THEN d
        ELSE IF at = {} THEN Append(d, dep_op)
        ELSE IF \E j \in at : Later(ns, dep_op, d[j])
             THEN [j \in DOMAIN d |-> IF j \in at THEN dep_op ELSE d[j]]
             ELSE d

\* op.depends for every order list(op.prev) may come in
DependsOf(ns, k) ==
  {DependsDict(ns, prev, Len(prev)) : prev \in Perms(ns[k].prev)}

\* InstructionDAG._infer_dependencies
infer_dependencies ==
  LET V == InGraph(nodes, operations)
  IN  \E depends \in Choices([k \in V |-> DependsOf(nodes, k)], V) :
        nodes' = [k \in Nodes(nodes) |->
                    IF k \in V THEN [nodes[k] EXCEPT !.depends = depends[k]]
                    ELSE nodes[k]]

\* lower_pt1 starts with _infer_dependencies; frontier[1:] + op.next needs
\* every visited op's next to be a list already.
InferDependencies ==
  /\ pc = "ready"
  /\ "steps" \in done
  /\ "infer" \notin done
  /\ IF \A k \in InGraph(nodes, operations) : nodes[k].is_list
     THEN infer_dependencies /\ pc' = pc
     ELSE nodes' = nodes /\ pc' = "error"
  /\ done' = done \cup {"infer"}
  /\ UNCHANGED <<operations, last_writer, last_readers, frontier, visited,
                 root, nodes0, src_writer, lowvars>>

\* ------------------------------------------------------------- the optimizer
\* Op.cnt of msccl.language.types: the transfer size.
cnt(o) == o.src.size

\* same_tb: the definition in force (the one defined last)
same_tb(op1, op2) == op1.tb = op2.tb

same_count(op1, op2) == cnt(op1) = cnt(op2)

\* A comparison of the whole destination, rank included.
same_dst(op1, op2) == op1.dst = op2.dst

same_buf_dst(op1, op2) ==
  op1.dst.buffer = op2.dst.buffer /\ op1.dst.index = op2.dst.index

\* A remove_op that splices both ways: the successors of op also take its
\* predecessors as successors.
remove_op_both_ways(ns, op) ==
  LET P == ns[op].prev
      N == Succ(ns, op)
  IN  {[k \in Nodes(ns) |->
          IF k = op THEN [ns[k] EXCEPT !.next = <<>>, !.prev = {}]
          ELSE LET a == IF k \in P THEN [ns[k] EXCEPT !.next = order[k]] ELSE ns[k]
               IN  IF k \in N
                   THEN [a EXCEPT !.prev = P \cup (@ \ {op}), !.next = back[k]]
                   ELSE a] :
       order \in Choices([p \in P |-> Perms((Succ(ns, p) \ {op}) \cup N)], P),
       back \in Choices([n \in N |-> Perms(Succ(ns, n) \cup P)], N)}

\* A remove_op whose successors keep op among their predecessors.
remove_op_dangling(ns, op) ==
  LET P == ns[op].prev
      N == Succ(ns, op)
  IN  {[k \in Nodes(ns) |->
          IF k = op THEN [ns[k] EXCEPT !.next = <<>>, !.prev = {}]
          ELSE LET a == IF k \in P THEN [ns[k] EXCEPT !.next = order[k]] ELSE ns[k]
               IN  IF k \in N THEN [a EXCEPT !.prev = P \cup @] ELSE a] :
       order \in Choices([p \in P |-> Perms((Succ(ns, p) \ {op}) \cup N)], P)}

\* remove_op: every order list(set(p.next)) may come in
remove_op(ns, op) ==
  LET P == ns[op].prev
      N == Succ(ns, op)
  IN  {[k \in Nodes(ns) |->
          IF k = op THEN [ns[k] EXCEPT !.next = <<>>, !.prev = {}]
          ELSE LET a == IF k \in P THEN [ns[k] EXCEPT !.next = order[k]] ELSE ns[k]
               IN  IF k \in N THEN [a EXCEPT !.prev = P \cup (@ \ {op})] ELSE a] :
       order \in Choices([p \in P |-> Perms((Succ(ns, p) \ {op}) \cup N)], P)}

\* A rewrite that leaves the paired receive pointing at the removed send.
FuseStale(ns, op, next_op, inst) ==
  remove_op([ns EXCEPT ![op].inst = inst, ![op].dst = ns[next_op].dst,
                       ![op].recv_match = ns[next_op].recv_match],
            next_op)

\* The rewrite both passes apply: op takes the send's destination and pairing,
\* the paired receive is pointed at op, the send is removed.
Fuse(ns, op, next_op, inst) ==
  LET m == ns[next_op].recv_match
      a == [ns EXCEPT ![op].inst = inst, ![op].dst = ns[next_op].dst,
                      ![op].recv_match = m]
  IN  remove_op([a EXCEPT ![m].send_match = op], next_op)

\* The while loop up to its next op that is not visited yet: visited heads are
\* dropped, and an empty frontier is refilled from the next registered op.
RECURSIVE Advance(_, _, _)
Advance(r, fr, vis) ==
  IF fr # <<>>
  THEN IF Head(fr) \in vis THEN Advance(r, Tail(fr), vis)
       ELSE [root |-> r, frontier |-> fr]
  ELSE IF r > Len(operations) THEN [root |-> r, frontier |-> <<>>]
       ELSE IF operations[r].op \in vis THEN Advance(r + 1, <<>>, vis)
            ELSE [root |-> r + 1, frontier |-> <<operations[r].op>>]

\* The first successor in op.next the recv -> send rule applies to (0: none)
RcsMatch(ns, op) ==
  LET hits == {j \in 1 .. Len(ns[op].next) :
                 /\ ns[op].inst = "recv"
                 /\ ns[ns[op].next[j]].inst = "send"
                 /\ same_tb(ns[op], ns[ns[op].next[j]])
                 /\ same_count(ns[op], ns[ns[op].next[j]])
                 /\ same_buf_dst(ns[op], ns[ns[op].next[j]])}
  IN  IF hits = {} THEN 0 ELSE ns[op].next[CHOOSE j \in hits : \A h \in hits : j <= h]

\* The body of _optimize_rcs for one op
rcs_visit(ns, op) ==
  IF RcsMatch(ns, op) = 0 THEN {ns}
  ELSE Fuse(ns, op, RcsMatch(ns, op), "recv_copy_send")

\* The recv_reduce_send rule without its look at the send's successor kind.
RrsAnySuccessor(ns, op) ==
  /\ Len(ns[op].next) = 1
  /\ Len(ns[ns[op].next[1]].next) = 1
  /\ ns[op].inst = "recv_reduce_copy"
  /\ ns[ns[op].next[1]].inst = "send"
  /\ same_tb(ns[op], ns[ns[op].next[1]])
  /\ same_count(ns[op], ns[ns[op].next[1]])
  /\ same_buf_dst(ns[op], ns[ns[op].next[1]])

RrsApplies(ns, op) ==
  /\ Len(ns[op].next) = 1
  /\ Len(ns[ns[op].next[1]].next) = 1
  /\ ns[op].inst = "recv_reduce_copy"
  /\ ns[ns[op].next[1]].inst = "send"
  /\ ns[ns[ns[op].next[1]].next[1]].inst = "recv"
  /\ same_tb(ns[op], ns[ns[op].next[1]])
  /\ same_count(ns[op], ns[ns[op].next[1]])
  /\ same_buf_dst(ns[op], ns[ns[op].next[1]])

RrcsApplies(ns, op, next_op) ==
  /\ ns[op].inst = "recv_reduce_copy"
  /\ ns[next_op].inst = "send"
  /\ same_tb(ns[op], ns[next_op])
  /\ same_count(ns[op], ns[next_op])
  /\ same_buf_dst(ns[op], ns[next_op])

\* The body of _optimize_rrcs_rrs for one op: next_op is read once, both
\* rules are tried in turn
rrcs_visit(ns, op) ==
  IF Len(ns[op].next) # 1 THEN {ns}
  ELSE
    LET next_op == ns[op].next[1]
        first == IF RrsApplies(ns, op)
                 THEN Fuse(ns, op, next_op, "recv_reduce_send") ELSE {ns}
    IN  UNION {IF RrcsApplies(a, op, next_op)
               THEN Fuse(a, op, next_op, "recv_reduce_copy_send") ELSE {a} :
               a \in first}

\* One turn of a pass's while loop on an op not visited before.
Visit(pass) ==
  LET a == Advance(root, frontier, visited)
      op == Head(a.frontier)
  IN  /\ a.frontier # <<>>
      /\ IF nodes[op].is_list
         THEN /\ \E ns \in (IF pass = "rrcs" THEN rrcs_visit(nodes, op)
                                             ELSE rcs_visit(nodes, op)) :
                   /\ nodes' = ns
                   /\ frontier' = Tail(a.frontier) \o ns[op].next
              /\ pc' = pc
         ELSE /\ nodes' = nodes
              /\ frontier' = a.frontier
              /\ pc' = "error"
      /\ visited' = visited \cup {op}
      /\ root' = a.root
      /\ UNCHANGED <<operations, last_writer, last_readers, done, nodes0, src_writer, lowvars>>

PassEnds == Advance(root, frontier, visited).frontier = <<>>

\* MscclInstructionDAG.optimize: _optimize_rrcs_rrs, then _optimize_rcs
Optimize ==
  /\ pc = "ready"
  /\ done = {}
  /\ pc' = "rrcs"
  /\ nodes0' = nodes
  /\ frontier' = <<>>
  /\ visited' = {}
  /\ root' = 1
  /\ UNCHANGED <<nodes, operations, last_writer, last_readers, done, src_writer, lowvars>>

RrcsVisit == pc = "rrcs" /\ Visit("rrcs")

RrcsEnd ==
  /\ pc = "rrcs"
  /\ PassEnds
  /\ pc' = "rcs"
  /\ frontier' = <<>>
  /\ visited' = {}
  /\ root' = 1
  /\ UNCHANGED <<nodes, operations, last_writer, last_readers, done, nodes0, src_writer, lowvars>>

RcsVisit == pc = "rcs" /\ Visit("rcs")

RcsEnd ==
  /\ pc = "rcs"
  /\ PassEnds
  /\ pc' = "ready"
  /\ done' = done \cup {"optimize"}
  /\ frontier' = <<>>
  /\ visited' = {}
  /\ root' = 1
  /\ UNCHANGED <<nodes, operations, last_writer, last_readers, nodes0, src_writer, lowvars>>

\* A whole pass as a function: the graphs its while loop may end with when it
\* starts on ns (every op's next a list) with the given loop state.
RECURSIVE RunPass(_, _, _, _, _)
RunPass(pass, ns, r, fr, vis) ==
  LET a == Advance(r, fr, vis)
  IN  IF a.frontier = <<>> THEN {ns}
      ELSE LET op == Head(a.frontier)
           IN  UNION {RunPass(pass, g, a.root, Tail(a.frontier) \o g[op].next,
                              vis \cup {op}) :
                      g \in (IF pass = "rrcs" THEN rrcs_visit(ns, op)
                                               ELSE rcs_visit(ns, op))}

\* optimize() as a function of the listed graph
optimize(ns) ==
  UNION {RunPass("rcs", g, 1, <<>>, {}) : g \in RunPass("rrcs", ns, 1, <<>>, {})}

\* --------------------------------------------------------- _complete_metadata
\* Where dfs goes from a node: its successors and, from a send, its paired recv.
DfsEdges(ns, k) ==
  Succ(ns, k) \cup (IF is_send(ns[k]) /\ ns[k].recv_match # None
                    THEN {ns[k].recv_match} ELSE {})

DfsRoots(ns, ops) == {o \in SeqToSet(Registry(ops)) : ns[o].inst = "start"}

RECURSIVE DfsReachFrom(_, _, _)
DfsReachFrom(ns, R, seen) ==
  LET new == (R \cup UNION {DfsEdges(ns, k) : k \in R}) \ seen
  IN  IF new = {} THEN seen ELSE DfsReachFrom(ns, new, seen \cup new)

DfsReached(ns, ops) == DfsReachFrom(ns, DfsRoots(ns, ops), {})

\* dfs never returns from a cycle (chunk_step grows on every turn), and it
\* fails on a send without a paired recv.
DfsFails(ns, ops) ==
  \E k \in DfsReached(ns, ops) :
    \/ k \in DfsReachFrom(ns, DfsEdges(ns, k), {})
    \/ is_send(ns[k]) /\ ns[k].recv_match = None

\* The maximum of the successors' priorities, without the + 1
highest_next_flat(ns, op) == Max({ns[x].priority : x \in Succ(ns, op)})

\* highest_next_priority = max([x.priority + 1 for x in op.next])
highest_next_priority(ns, op) == Max({ns[x].priority + 1 : x \in Succ(ns, op)})

\* A walk that never comes back to a node it has visited.
settled_once(st, op, cs) == op \in st.visited

\* already visited and no need to update chunk_step
settled(st, op, cs) == st.ns[op].chunk_step >= cs + 1 /\ op \in st.visited

RECURSIVE dfs(_, _, _), dfs_next(_, _, _)
\* the nested function dfs(op, cs); st holds the graph and the visited set
dfs(st, op, cs) ==
  LET o == st.ns[op]
  IN  IF settled(st, op, cs) THEN st
      ELSE
        LET s1 == [st EXCEPT !.ns[op].chunk_step = Max({o.chunk_step, cs + 1})]
        IN  IF Len(o.next) = 0 /\ o.recv_match = None
            THEN [s1 EXCEPT !.ns[op].priority = 0, !.visited = @ \cup {op}]
            ELSE
              LET s2 == dfs_next(s1, op, 1)
                  s3 == IF Len(o.next) > 0 /\ op \notin s2.visited
                        THEN [s2 EXCEPT !.ns[op].priority =
                                Max({highest_next_priority(s2.ns, op),
                                     s2.ns[op].priority})]
                        ELSE s2
                  s4 == IF is_send(o)
                        THEN LET s5 == dfs(s3, o.recv_match, s3.ns[op].chunk_step)
                             IN  IF op \notin s5.visited
                                 THEN [s5 EXCEPT !.ns[op].priority =
                                         Max({s5.ns[op].priority,
                                              s5.ns[o.recv_match].priority + 1})]
                                 ELSE s5
                        ELSE s3
              IN  [s4 EXCEPT !.visited = @ \cup {op}]

\* for o in op.next: dfs(o, op.chunk_step), from the j-th successor on
dfs_next(st, op, j) ==
  IF j > Len(st.ns[op].next) THEN st
  ELSE dfs_next(dfs(st, st.ns[op].next[j], st.ns[op].chunk_step), op, j + 1)

\* for chunk, op in self.operations.items(): dfs(op, -2) on the start ops
RECURSIVE DfsFromRoots(_, _, _)
DfsFromRoots(st, ops, r) ==
  IF r > Len(ops) THEN st
  ELSE DfsFromRoots(IF st.ns[ops[r].op].inst = "start" THEN dfs(st, ops[r].op, -2)
                    ELSE st,
                    ops, r + 1)

\* MscclInstructionDAG._complete_metadata
complete_metadata(ns, ops) == DfsFromRoots([ns |-> ns, visited |-> {}], ops, 1).ns

CompleteMetadata ==
  /\ pc = "ready"
  /\ "metadata" \notin done
  /\ "optimize" \in done
  /\ IF DfsFails(nodes, operations)
     THEN nodes' = nodes /\ pc' = "error"
     ELSE nodes' = complete_metadata(nodes, operations) /\ pc' = pc
  /\ done' = done \cup {"metadata"}
  /\ UNCHANGED <<operations, last_writer, last_readers, frontier, visited,
                 root, nodes0, src_writer, lowvars>>

\* ------------------------------------------------------------- lowering
\* An ordered dict is a list of entries: a Threadblock entry is
\* [id, channel, send, recv, ops], a Buffer entry is [key, size, len, offset]
\* (size: instance_size(), len: len(buf), offset -1: set_offset not called).
\* An original op of a threadblock is named by <<rank, tbid, position>>, a
\* clone by the same triple within instanced_tbs.
Policies == {"interleaved", "batched"}

HasKey(d, k) == \E j \in 1 .. Len(d) : d[j].id = k

GetKey(d, k) == d[CHOOSE j \in 1 .. Len(d) : d[j].id = k]

\* d[k] = v on an ordered dict: an existing key keeps its place
SetKey(d, k, v) ==
  IF HasKey(d, k)
  THEN [j \in 1 .. Len(d) |-> IF d[j].id = k THEN v ELSE d[j]]
  ELSE Append(d, v)

\* self.buffers[rank][buffer]
BufferOf(rank, buffer) ==
  buffers[rank][CHOOSE j \in 1 .. Len(buffers[rank]) : buffers[rank][j].key = buffer]

is_scratch(buffer) == buffer /= "input" /\ buffer /= "output"

get_new_index_unscaled(rank, buffer, index, size, i, instances, replication_policy) ==
  IF is_scratch(buffer)
  THEN BufferOf(rank, buffer).size * i + index
  ELSE IF replication_policy = "interleaved"
       THEN index * instances + i
       ELSE BufferOf(rank, buffer).len * i + index

get_new_index(rank, buffer, index, size, i, instances, replication_policy) ==
  IF is_scratch(buffer)
  THEN BufferOf(rank, buffer).size * i + index
  ELSE IF replication_policy = "interleaved"
       THEN index * instances + i * size
       ELSE BufferOf(rank, buffer).len * i + index

get_instance_ref(ref, i, instances, replication_policy) ==
  ChunkRef(ref.rank, ref.buffer,
           get_new_index(ref.rank, ref.buffer, ref.index, ref.size, i,
                         instances, replication_policy),
           ref.size)

max_channels == Max({num_channels[r] : r \in Ranks})

\* the body of the loop over rank_tbs.items() at lines 482-495, for the j-th
\* threadblock of rank. Line 495 files the clone under op.rank, and `op` is
\* what the inner loop left behind, in this threadblock or in an earlier one:
\* st.bound tells whether the name is bound yet, st.op_rank is its op.rank.
\* Reading the unbound name raises (st.ok = FALSE).
CloneTb(st, i, rank, j, instances, replication_policy) ==
  LET tb == tbs[rank][j]
      itbid == tb.id * instances + i
      iops == [s \in 1 .. Len(tb.ops) |->
                 [inst |-> tb.ops[s].inst,
                  rank |-> tb.ops[s].rank,
                  src |-> get_instance_ref(tb.ops[s].src, i, instances, replication_policy),
                  dst |-> get_instance_ref(tb.ops[s].dst, i, instances, replication_policy),
                  depends |-> <<>>,
                  step |-> tb.ops[s].step,
                  tb |-> itbid]]
      itb == [id |-> itbid, channel |-> max_channels * i + tb.channel,
              send |-> tb.send, recv |-> tb.recv, ops |-> iops]
      bound == Len(tb.ops) > 0 \/ st.bound
      op_rank == IF Len(tb.ops) > 0 THEN tb.ops[Len(tb.ops)].rank ELSE st.op_rank
  IN  IF ~bound
      THEN [st EXCEPT !.ok = FALSE]
      ELSE [st EXCEPT !.bound = TRUE, !.op_rank = op_rank,
                      !.itbs[op_rank] = SetKey(st.itbs[op_rank], itbid, itb)]

RECURSIVE CloneLoop(_, _, _, _, _, _)
CloneLoop(st, i, rank, j, instances, replication_policy) ==
  IF ~st.ok \/ i = instances THEN st
  ELSE IF rank = NumRanks
  THEN CloneLoop(st, i + 1, 0, 1, instances, replication_policy)
  ELSE IF j > Len(tbs[rank])
  THEN CloneLoop(st, i, rank + 1, 1, instances, replication_policy)
  ELSE CloneLoop(CloneTb(st, i, rank, j, instances, replication_policy),
                 i, rank, j + 1, instances, replication_policy)

\* the original op a depends entry names
TbOp(d) == GetKey(tbs[d[1]], d[2]).ops[d[3]]

KeyAt(d, k) == CHOOSE j \in 1 .. Len(d) : d[j].id = k

NoDep == <<>>

Min(S) == CHOOSE x \in S : \A y \in S : x <= y

\* A rebuild that always points into instance 0.
dep_itbid_first_instance(dep_tbid, instances, i) == dep_tbid * instances

\* dep_itbid = dep_tbid * instances + i
dep_itbid_of(dep_tbid, instances, i) == dep_tbid * instances + i

\* lines 498-509: s runs over zip(tb.ops, itb.ops), k over op.depends. A
\* missing key or list index raises (st.ok = FALSE) and leaves what was
\* assigned so far.
RECURSIVE DependsLoop(_, _, _, _, _, _, _)
DependsLoop(st, rank, j, i, s, k, instances) ==
  IF ~st.ok \/ rank = NumRanks THEN st
  ELSE IF j > Len(tbs[rank])
  THEN DependsLoop(st, rank + 1, 1, 0, 1, 1, instances)
  ELSE IF i = instances
  THEN DependsLoop(st, rank, j + 1, 0, 1, 1, instances)
  ELSE
    LET tb == tbs[rank][j]
        itbid == tb.id * instances + i
    IN  IF ~HasKey(st.itbs[rank], itbid)
        THEN [st EXCEPT !.ok = FALSE]
        ELSE
          LET jj == KeyAt(st.itbs[rank], itbid)
              itb == st.itbs[rank][jj]
          IN  IF s > Min({Len(tb.ops), Len(itb.ops)})
              THEN DependsLoop(st, rank, j, i + 1, 1, 1, instances)
              ELSE
                LET op == tb.ops[s]
                    st1 == IF k = 1
                           THEN [st EXCEPT !.itbs[rank][jj].ops[s].depends =
                                             [x \in 1 .. Len(op.depends) |-> NoDep]]
                           ELSE st
                IN  IF k > Len(op.depends)
                    THEN DependsLoop(st1, rank, j, i, s + 1, 1, instances)
                    ELSE
                      LET dep == TbOp(op.depends[k])
                          dep_itbid == dep_itbid_of(dep.tb, instances, i)
                          dep_step == dep.step
                          found ==
                            /\ HasKey(st1.itbs[op.rank], dep_itbid)
                            /\ dep_step < Len(GetKey(st1.itbs[op.rank], dep_itbid).ops)
                      IN  IF ~found
                          THEN [st1 EXCEPT !.ok = FALSE]
                          ELSE DependsLoop(
                                 [st1 EXCEPT !.itbs[rank][jj].ops[s].depends[k] =
                                               <<op.rank, dep_itbid, dep_step + 1>>],
                                 rank, j, i, s, k + 1, instances)

\* replicate(instances, replication_policy), lines 449-509
replicate(instances, replication_policy) ==
  IF instances = 1
  THEN [itbs |-> tbs, ok |-> TRUE]
  ELSE
    LET st0 == [itbs |-> [r \in Ranks |-> <<>>], bound |-> FALSE,
                op_rank |-> 0, ok |-> TRUE]
        st1 == CloneLoop(st0, 0, 0, 1, instances, replication_policy)
        st2 == DependsLoop(st1, 0, 1, 0, 1, 1, instances)
    IN  [itbs |-> st2.itbs, ok |-> st2.ok]

\* the attribute is not assigned yet / nothing returned yet
Unset == <<>>

\* _lower_buffers, lines 192-198: Buffer.set_offset and instance_size are
\* methods of msccl.language.buffer
next_offset_one_instance(offset, buf, instances) == offset + buf.size

\* offset += buf.instance_size() * instances
next_offset(offset, buf, instances) == offset + buf.size * instances

RECURSIVE LowerRankBuffers(_, _, _, _)
LowerRankBuffers(rank_buffers, j, offset, instances) ==
  IF j > Len(rank_buffers) THEN rank_buffers
  ELSE IF rank_buffers[j].key /= "input" /\ rank_buffers[j].key /= "output"
  THEN LowerRankBuffers([rank_buffers EXCEPT ![j].offset = offset], j + 1,
                        next_offset(offset, rank_buffers[j], instances), instances)
  ELSE LowerRankBuffers(rank_buffers, j + 1, offset, instances)

lower_buffers(instances) ==
  [r \in Ranks |-> LowerRankBuffers(buffers[r], 1, 0, instances)]

\* _lower_chunk, lines 184-189: get_buffer() names the global scratch buffer,
\* get_global_index(index) is offset + index
lower_chunk(chunk) ==
  IF chunk.buffer /= "input" /\ chunk.buffer /= "output"
  THEN ChunkRef(chunk.rank, "scratch",
                BufferOf(chunk.rank, chunk.buffer).offset + chunk.index, chunk.size)
  ELSE chunk

\* _lower_tbs, lines 201-215, on the per-rank dicts itbs
lower_tbs(itbs) ==
  [r \in Ranks |->
     [j \in 1 .. Len(itbs[r]) |->
        [itbs[r][j] EXCEPT !.ops =
           [s \in 1 .. Len(itbs[r][j].ops) |->
              [itbs[r][j].ops[s] EXCEPT !.src = lower_chunk(@),
                                        !.dst = lower_chunk(@)]]]]]

\* the chunks _lower_tbs lowers
ChunksOf(itbs) ==
  UNION {UNION {UNION {{itbs[r][j].ops[s].src, itbs[r][j].ops[s].dst} :
                         s \in 1 .. Len(itbs[r][j].ops)} :
                  j \in 1 .. Len(itbs[r])} :
           r \in Ranks}

HasBuffer(rank, buffer) ==
  \E j \in 1 .. Len(buffers[rank]) : buffers[rank][j].key = buffer

\* self.buffers[chunk.rank][chunk.buffer] raises KeyError: the chunk was
\* lowered before and names the global scratch buffer
NoBuffer(itbs) ==
  \E c \in ChunksOf(itbs) : is_scratch(c.buffer) /\ ~HasBuffer(c.rank, c.buffer)

\* a chunk of a scratch buffer whose offset was never set is lowered
NeedsOffset(itbs) ==
  \E c \in ChunksOf(itbs) :
    /\ is_scratch(c.buffer)
    /\ HasBuffer(c.rank, c.buffer)
    /\ BufferOf(c.rank, c.buffer).offset = -1

Call(name, instances, replication_policy, ok) ==
  [call |-> name, instances |-> instances, policy |-> replication_policy, ok |-> ok]

\* the caller compiles one program with one instance count
Instances == 1 .. MaxInstances

SameInstances(instances) ==
  \A c \in 1 .. Len(calls) : calls[c].instances = instances

\* a direct call of _lower_buffers(instances)
LowerBuffers ==
  /\ Len(calls) < MaxCalls
  /\ \E instances \in Instances :
       /\ SameInstances(instances)
       /\ buffers' = lower_buffers(instances)
       /\ calls' = Append(calls, Call("_lower_buffers", instances, "", TRUE))
  /\ UNCHANGED <<nodes, operations, last_writer, last_readers, pc, done, frontier,
                 visited, root, nodes0, src_writer, tbs, num_channels,
                 instanced_tbs, gpus>>

\* replicate(1, ...) makes instanced_tbs the very object self.tbs is
Aliased ==
  /\ instanced_tbs /= Unset
  /\ \E c \in 1 .. Len(calls) :
       calls[c].call \in {"replicate", "lower_pt2"} /\ calls[c].instances = 1

\* op.depends as _infer_dependencies assigns it to the ops of the
\* threadblocks. The ops are nodes of the graph, which the lowering
\* specifications leave out, so the outcome is one of these shapes: nothing,
\* the op before it in its own threadblock, the last op of every
\* threadblock of its rank with a smaller id, or both.
Patterns == {"none", "chain", "cross", "both"}

RECURSIVE CrossDepsFrom(_, _, _)
CrossDepsFrom(rank, tbid, j) ==
  LET d == tbs[rank]
  IN  IF j > Len(d) THEN <<>>
      ELSE (IF d[j].id < tbid /\ Len(d[j].ops) > 0
            THEN <<<<rank, d[j].id, Len(d[j].ops)>>>> ELSE <<>>)
           \o CrossDepsFrom(rank, tbid, j + 1)

CrossDeps(rank, tbid) == CrossDepsFrom(rank, tbid, 1)

ChainDeps(rank, tbid, s) ==
  IF s > 1 THEN <<<<rank, tbid, s - 1>>>> ELSE <<>>

WithDepends(pattern) ==
  [r \in Ranks |->
     [j \in 1 .. Len(tbs[r]) |->
        [tbs[r][j] EXCEPT !.ops =
           [s \in 1 .. Len(tbs[r][j].ops) |->
              [tbs[r][j].ops[s] EXCEPT !.depends =
                 (IF pattern \in {"cross", "both"}
                  THEN CrossDeps(r, tbs[r][j].id) ELSE <<>>)
                 \o (IF pattern \in {"chain", "both"}
                     THEN ChainDeps(r, tbs[r][j].id, s) ELSE <<>>)]]]]]

\* lower_pt1(instances), lines 245-247
LowerPt1 ==
  /\ Len(calls) < MaxCalls
  /\ pc = "ready"
  /\ \E instances \in Instances :
       /\ SameInstances(instances)
       /\ IF \A k \in InGraph(nodes, operations) : nodes[k].is_list
          THEN /\ infer_dependencies
               /\ pc' = pc
               /\ \E pattern \in Patterns : tbs' = WithDepends(pattern)
               /\ buffers' = lower_buffers(instances)
               /\ calls' = Append(calls, Call("lower_pt1", instances, "", TRUE))
          ELSE /\ nodes' = nodes
               /\ pc' = "error"
               /\ UNCHANGED <<tbs, buffers>>
               /\ calls' = Append(calls, Call("lower_pt1", instances, "", FALSE))
  /\ instanced_tbs' = IF Aliased THEN tbs' ELSE instanced_tbs
  /\ done' = done \cup {"infer"}
  /\ UNCHANGED <<operations, last_writer, last_readers, frontier, visited, root,
                 nodes0, src_writer, num_channels, gpus>>

\* a direct call of replicate(instances, replication_policy)
Replicate ==
  /\ Len(calls) < MaxCalls
  /\ \E instances \in Instances, replication_policy \in Policies :
       /\ SameInstances(instances)
       /\ LET res == replicate(instances, replication_policy)
          IN  /\ instanced_tbs' = res.itbs
              /\ calls' = Append(calls, Call("replicate", instances,
                                             replication_policy, res.ok))
  /\ UNCHANGED <<nodes, operations, last_writer, last_readers, pc, done, frontier,
                 visited, root, nodes0, src_writer, tbs, buffers, num_channels, gpus>>

\* lower_pt2(instances, replication_policy), lines 249-251. Lowering a
\* scratch chunk whose buffer has no offset yet is left to
\* Buffer.get_global_index: it either refuses or adds the unset offset.
LowerPt2 ==
  /\ Len(calls) < MaxCalls
  /\ \E instances \in Instances, replication_policy \in Policies :
       /\ SameInstances(instances)
       /\ LET res == replicate(instances, replication_policy)
          IN  \E refuses \in (IF res.ok /\ NeedsOffset(res.itbs) THEN BOOLEAN ELSE {FALSE}) :
                IF res.ok /\ ~NoBuffer(res.itbs) /\ ~refuses
                THEN /\ instanced_tbs' = lower_tbs(res.itbs)
                     /\ tbs' = IF instances = 1 THEN instanced_tbs' ELSE tbs
                     /\ gpus' = [r \in Ranks |->
                                   [rank |-> r, threadblocks |-> instanced_tbs'[r]]]
                     /\ calls' = Append(calls, Call("lower_pt2", instances,
                                                    replication_policy, TRUE))
                ELSE /\ instanced_tbs' = res.itbs
                     /\ UNCHANGED <<tbs, gpus>>
                     /\ calls' = Append(calls, Call("lower_pt2", instances,
                                                    replication_policy, FALSE))
  /\ UNCHANGED <<nodes, operations, last_writer, last_readers, pc, done, frontier,
                 visited, root, nodes0, src_writer, buffers, num_channels>>

\* ---- the documented order: lower_pt1, optimize, lower_pt2 on a built graph
\* lower_pt1 on the graph convert_set_list left, before any fusion
PipelineLowerPt1 ==
  /\ done = {}
  /\ LowerPt1

\* MscclInstructionDAG.optimize called once lower_pt1 has run
PipelineOptimize ==
  /\ pc = "ready"
  /\ "infer" \in done
  /\ "optimize" \notin done
  /\ pc' = "rrcs"
  /\ nodes0' = nodes
  /\ frontier' = <<>>
  /\ visited' = {}
  /\ root' = 1
  /\ UNCHANGED <<nodes, operations, last_writer, last_readers, done, src_writer, lowvars>>

\* lower_pt2 once optimize has returned
PipelineLowerPt2 ==
  /\ pc = "ready"
  /\ "optimize" \in done
  /\ LowerPt2

\* ---- the state the lowering calls start from
\* Buffer entries as the front end declares them (constructor argument
\* `buffers`): input and output, and two scratch buffers
BufferEntry(key, size, len) ==
  [key |-> key, size |-> size, len |-> len, offset |-> -1]

DeclaredBuffers ==
  [r \in Ranks |->
     IF r = 0
     THEN <<BufferEntry("input", 2, 3), BufferEntry("a", 2, 2),
            BufferEntry("output", 2, 3), BufferEntry("b", 3, 3)>>
     ELSE <<BufferEntry("b", 1, 1), BufferEntry("input", 2, 3),
            BufferEntry("a", 3, 3), BufferEntry("output", 2, 3)>>]

\* a rank's threadblocks in dict order: ids 0 .. k-1 in some order, each
\* with n ops
TbLayouts ==
  UNION { {l \in [1 .. k -> [id : Tbs, n : 0 .. MaxTbOps]] :
             {l[j].id : j \in 1 .. k} = 0 .. (k - 1)} : k \in 0 .. NumTbs }

RECURSIVE LayoutOps(_, _)
LayoutOps(l, j) == IF j > Len(l) THEN 0 ELSE l[j].n + LayoutOps(l, j + 1)

RECURSIVE TotalOps(_, _)
TotalOps(layout, r) ==
  IF r = NumRanks THEN 0 ELSE LayoutOps(layout[r], 1) + TotalOps(layout, r + 1)

Layouts == {layout \in [Ranks -> TbLayouts] : TotalOps(layout, 0) <= MaxTbOpsTotal}

Shapes == [index : 0 .. 1, size : 1 .. 2]

\* the op at position s of a threadblock: step s - 1, no depends yet
TbOpAt(rank, tbid, s, shape) ==
  [inst |-> IF s % 2 = 1 THEN "copy" ELSE "reduce",
   rank |-> rank,
   src |-> ChunkRef(rank, IF s % 2 = 1 THEN "input" ELSE "b", shape.index, shape.size),
   dst |-> ChunkRef(rank, IF s % 2 = 1 THEN "a" ELSE "output", shape.index, shape.size),
   depends |-> <<>>,
   step |-> s - 1,
   tb |-> tbid]

MakeTbs(layout, shape) ==
  [r \in Ranks |->
     [j \in 1 .. Len(layout[r]) |->
        [id |-> layout[r][j].id,
         channel |-> layout[r][j].id % (r + 1),
         send |-> -1,
         recv |-> -1,
         ops |-> [s \in 1 .. layout[r][j].n |-> TbOpAt(r, layout[r][j].id, s, shape)]]]]

\* __init__, lines 99-112, for a program that has no scratch buffer
InitLowering ==
  /\ tbs = [r \in Ranks |-> <<>>]
  /\ buffers = [r \in Ranks |-> <<BufferEntry("input", NumIndex, NumIndex)>>]
  /\ num_channels = [r \in Ranks |-> 1]
  /\ instanced_tbs = Unset
  /\ gpus = Unset
  /\ calls = <<>>

InitDag ==
  /\ nodes = <<>>
  /\ operations = <<>>
  /\ last_writer = [s \in Slots |-> None]
  /\ last_readers = [s \in Slots |-> <<>>]
  /\ pc = "build"
  /\ done = {}
  /\ frontier = <<>>
  /\ visited = {}
  /\ root = 1
  /\ nodes0 = <<>>
  /\ src_writer = <<>>

Init == InitDag /\ InitLowering

\* the object after the front end has filled self.tbs, before any lowering
\* call; the graph itself is left out
InitLower ==
  /\ nodes = <<>>
  /\ operations = <<>>
  /\ last_writer = [s \in Slots |-> None]
  /\ last_readers = [s \in Slots |-> <<>>]
  /\ pc = "ready"
  /\ done = {"steps"}
  /\ frontier = <<>>
  /\ visited = {}
  /\ root = 1
  /\ nodes0 = <<>>
  /\ src_writer = <<>>
  /\ \E layout \in Layouts, shape \in Shapes : tbs = MakeTbs(layout, shape)
  /\ buffers = DeclaredBuffers
  /\ num_channels = [r \in Ranks |-> r + 1]
  /\ instanced_tbs = Unset
  /\ gpus = Unset
  /\ calls = <<>>

BuildNext ==
  \/ Start
  \/ BuildCopy
  \/ BuildReduce
  \/ BuildSend
  \/ BuildRecv
  \/ BuildRecvReduceCopy
  \/ ConvertSetList
  \/ AssignSteps
  \/ InferDependencies

Next ==
  \/ Start
  \/ LocalCopy
  \/ TransferSend
  \/ TransferRecv
  \/ TransferRecvReduceCopy
  \/ ConvertSetList
  \/ Optimize
  \/ RrcsVisit
  \/ RrcsEnd
  \/ RcsVisit
  \/ RcsEnd
  \/ CompleteMetadata

ForwardNext ==
  \/ Start
  \/ ForwardSend
  \/ ForwardRecv
  \/ ForwardRecvReduceCopy
  \/ ConvertSetList
  \/ Optimize
  \/ RrcsVisit
  \/ RrcsEnd
  \/ RcsVisit
  \/ RcsEnd

LowerNext ==
  \/ LowerBuffers
  \/ LowerPt1
  \/ Replicate
  \/ LowerPt2

RestartNext ==
  \/ Start
  \/ Restart
  \/ RestartSend
  \/ RestartRecv
  \/ ConvertSetList
  \/ AssignSteps
  \/ InferDependencies

PipelineNext ==
  \/ Start
  \/ ForwardSend
  \/ ForwardRecv
  \/ ForwardRecvReduceCopy
  \/ ConvertSetList
  \/ PipelineLowerPt1
  \/ PipelineOptimize
  \/ RrcsVisit
  \/ RrcsEnd
  \/ RcsVisit
  \/ RcsEnd
  \/ PipelineLowerPt2

SpecBuild == Init /\ [][BuildNext]_vars

SpecPipeline == Init /\ [][PipelineNext]_vars

SpecRestart == Init /\ [][RestartNext]_vars

SpecForward == Init /\ [][ForwardNext]_vars

SpecLower == InitLower /\ [][LowerNext]_vars

Spec == Init /\ [][Next]_vars

\* ------------------------------------------------------------------ claims
\* The slots a reference covers on a rank
SlotsOf(rank, ref) ==
  {<<rank, ref.buffer, i>> : i \in ref.index .. (ref.index + ref.size - 1)}

Acyclic(ns) == \A k \in Nodes(ns) : k \notin Reach(ns, Succ(ns, k))

SameUnit(a, b) == a.rank = b.rank /\ a.tb = b.tb

\* C1: after any sequence of successful builder calls the successor graph has
\* no cycle, not even a node that is its own successor.
C1_BuilderAcyclic == pc = "build" => Acyclic(nodes)

\* The node a builder call has just created, and whether a call was made
Called == pc = "build" /\ Len(nodes') = Len(nodes) + 1

\* The readers of slot s at the time the new node writes it: a copy or a
\* reduce has read its source range before it writes.
ReadersAtWrite(s) ==
  LET W == Len(nodes')
      o == nodes'[W]
  IN  SeqToSet(last_readers[s])
        \cup (IF o.inst \in {"copy", "reduce"} /\ s \in SlotsOf(o.rank, o.src)
              THEN {W} ELSE {})

\* What the write of slot s gives the new node as predecessors
HazardOf(s) ==
  IF ReadersAtWrite(s) # {} THEN ReadersAtWrite(s)
  ELSE IF last_writer[s] # None THEN {last_writer[s]}
  ELSE {}

\* C2: a successful write-type call by node W gets from every slot s it covers
\* all of s's active readers if there are any, else s's previous writer if
\* there is one, else nothing (its other predecessors are the writers of what
\* it read); afterwards s's last writer is W and s has no active reader.
C2_WriteHazards ==
  [][(Called /\ pc' = "build"
        /\ nodes'[Len(nodes')].inst \in {"copy", "reduce", "recv", "recv_reduce_copy"})
     => LET W == Len(nodes')
            o == nodes'[W]
            cover == SlotsOf(o.rank, o.dst)
            fromRead == IF o.inst \in {"copy", "reduce"}
                        THEN {last_writer[s] : s \in SlotsOf(o.rank, o.src)}
                        ELSE {}
        IN  /\ o.prev = fromRead \cup UNION {HazardOf(s) : s \in cover}
            /\ \A p \in o.prev : W \in Succ(nodes', p)
            /\ \A s \in cover : last_writer'[s] = W /\ last_readers'[s] = <<>>]_vars

\* a recv that overwrote a slot a send had read, and a copy over a written
\* slot nobody had read
C2_Witness ==
  /\ pc = "build"
  /\ \E W \in Nodes(nodes), p \in Nodes(nodes) :
       /\ nodes[W].inst = "recv" /\ nodes[p].inst = "send"
       /\ p \in nodes[W].prev
       /\ \A s \in SlotsOf(nodes[W].rank, nodes[W].dst) :
            last_writer[s] = W /\ last_readers[s] = <<>>

\* C3: a builder call fails exactly when it reads a slot with no writer (the
\* source range of a send, copy or reduce) or reduces into a slot with no
\* writer (the destination range of a reduce or recv_reduce_copy).
C3_FailsExactly ==
  [][Called
     => LET o == nodes'[Len(nodes')]
            unread == /\ o.inst \in {"send", "copy", "reduce"}
                      /\ \E s \in SlotsOf(o.rank, o.src) : last_writer[s] = None
            unreduced == /\ o.inst \in {"reduce", "recv_reduce_copy"}
                         /\ \E s \in SlotsOf(o.rank, o.dst) : last_writer[s] = None
        IN  (pc' = "failed") <=> (unread \/ unreduced)]_vars

\* a recv_reduce_copy into a slot nobody wrote has failed
C3_Witness ==
  /\ pc = "failed"
  /\ nodes[Len(nodes)].inst = "recv_reduce_copy"

NonStartPrev(k) == {p \in nodes[k].prev : nodes[p].inst # "start"}

C6_NoSameUnitDepends ==
  ("infer" \in done /\ pc = "ready")
  => \A n \in Nodes(nodes) :
       \A d \in SeqToSet(nodes[n].depends) : ~SameUnit(nodes[d], nodes[n])

Excised(k) == nodes0[k].inst = "send" /\ nodes[k].prev = {}

Optimizing == pc \in {"rrcs", "rcs"} \/ "optimize" \in done

\* C4: optimize() on an acyclic graph leaves an acyclic graph, and so does
\* every single rewrite and excision on the way.
C4_OptimizeAcyclic == (Optimizing /\ Acyclic(nodes0)) => Acyclic(nodes)

\* a send that had successors has been excised from an acyclic graph
C4_Witness ==
  /\ "optimize" \in done
  /\ Acyclic(nodes0)
  /\ \E k \in Nodes(nodes0) : Excised(k) /\ Succ(nodes0, k) # {}

RecvFamily(o) ==
  o.inst \in {"recv", "recv_reduce_copy", "recv_copy_send", "recv_reduce_send",
              "recv_reduce_copy_send"}

PairedBefore ==
  \A k \in Nodes(nodes0) :
    /\ is_send(nodes0[k])
       => /\ nodes0[k].recv_match # None
          /\ nodes0[nodes0[k].recv_match].send_match = k
    /\ (RecvFamily(nodes0[k]) /\ nodes0[k].send_match # None)
       => nodes0[nodes0[k].send_match].recv_match = k

\* C8: if every send and its recv point at each other before optimize(), then
\* afterwards every surviving send-family node A has A.recv_match.send_match
\* = A, every surviving recv-family node B with a send_match has
\* B.send_match.recv_match = B, and no surviving node points at an excised one.
C8_PairingPreserved ==
  ("optimize" \in done /\ PairedBefore)
  => \A k \in Nodes(nodes) :
       ~Excised(k)
       => LET o == nodes[k]
          IN  /\ is_send(o) => /\ o.recv_match # None
                               /\ nodes[o.recv_match].send_match = k
              /\ (RecvFamily(o) /\ o.send_match # None)
                 => nodes[o.send_match].recv_match = k
              /\ o.recv_match # None => ~Excised(o.recv_match)
              /\ o.send_match # None => ~Excised(o.send_match)

\* a fused node and the receive on the far side point at each other
C8_Witness ==
  /\ "optimize" \in done
  /\ PairedBefore
  /\ \E k \in Nodes(nodes) :
       /\ nodes[k].inst \in {"recv_copy_send", "recv_reduce_copy_send"}
       /\ nodes[nodes[k].recv_match].send_match = k
       /\ \E x \in Nodes(nodes) : Excised(x) /\ nodes0[x].recv_match = nodes[k].recv_match

\* The recv R is forwarded by the send S of its own execution unit
Forwarded(R, S) ==
  /\ nodes0[R].inst = "recv"
  /\ nodes0[S].inst = "send"
  /\ S \in Succ(nodes0, R)
  /\ SameUnit(nodes0[R], nodes0[S])

Fusable(R, S) ==
  /\ Forwarded(R, S)
  /\ nodes0[R].src.size = nodes0[S].src.size
  /\ nodes0[R].dst.buffer = nodes0[S].dst.buffer
  /\ nodes0[R].dst.index = nodes0[S].dst.index

C10_Priority ==
  ("metadata" \in done /\ pc = "ready")
  => \A k \in DfsReached(nodes, operations) :
       LET o == nodes[k]
           over == {nodes[x].priority + 1 : x \in Succ(nodes, k)}
                     \cup (IF is_send(o) THEN {nodes[o.recv_match].priority + 1}
                           ELSE {})
       IN  /\ o.priority = IF Succ(nodes, k) = {} /\ o.recv_match = None THEN 0
                           ELSE Max(over)
           /\ \A x \in Succ(nodes, k) : o.priority >= nodes[x].priority + 1

\* a send with successors whose priority comes from its paired recv
C10_Witness ==
  /\ "metadata" \in done /\ pc = "ready"
  /\ \E k \in DfsReached(nodes, operations) :
       /\ is_send(nodes[k])
       /\ Succ(nodes, k) # {}
       /\ nodes[k].priority = nodes[nodes[k].recv_match].priority + 1
       /\ \A x \in Succ(nodes, k) : nodes[k].priority > nodes[x].priority + 1

\* ---- lowering claims, on the states of SpecLower
LastCall == calls[Len(calls)]

\* the last call was a replicate(N, policy) with N > 1 that returned
Replicated ==
  /\ Len(calls) > 0
  /\ LastCall.call = "replicate"
  /\ LastCall.ok
  /\ LastCall.instances > 1

\* the positions <<r, j, s>> of the original ops: op s of the j-th threadblock of rank r
OpPositions ==
  UNION {UNION {{<<r, j, s>> : s \in 1 .. Len(tbs[r][j].ops)} :
                  j \in 1 .. Len(tbs[r])} : r \in Ranks}

\* the index the documentation gives a chunk reference in instance i
RemappedIndex(ref, i, N, policy) ==
  IF ref.buffer \notin {"input", "output"}
  THEN ref.index + i * BufferOf(ref.rank, ref.buffer).size
  ELSE IF policy = "interleaved"
       THEN ref.index * N + i * ref.size
       ELSE ref.index + i * BufferOf(ref.rank, ref.buffer).len

RemappedRef(ref, iref, i, N, policy) ==
  /\ iref.rank = ref.rank
  /\ iref.buffer = ref.buffer
  /\ iref.size = ref.size
  /\ iref.index = RemappedIndex(ref, i, N, policy)

\* C11: after replicate(N, policy) with N > 1, the clone at instance i of
\* every op has the source and destination of the op with the index remapped
\* to index + i * instance_size for a scratch buffer, index * N + i * size
\* for input/output under the interleaved policy and index + i * len(buffer)
\* for input/output under the batched policy; rank, buffer and size are kept.
C11_IndexRemap ==
  Replicated =>
    \A p \in OpPositions : \A i \in 0 .. (LastCall.instances - 1) :
      LET N == LastCall.instances
          tb == tbs[p[1]][p[2]]
          op == tb.ops[p[3]]
          itbid == tb.id * N + i
      IN  /\ HasKey(instanced_tbs[op.rank], itbid)
          /\ p[3] <= Len(GetKey(instanced_tbs[op.rank], itbid).ops)
          /\ LET iop == GetKey(instanced_tbs[op.rank], itbid).ops[p[3]]
             IN  /\ RemappedRef(op.src, iop.src, i, N, LastCall.policy)
                 /\ RemappedRef(op.dst, iop.dst, i, N, LastCall.policy)

\* a two-slot input chunk and a scratch chunk were cloned into instance 1
\* under the interleaved policy
C11_Witness ==
  /\ Replicated
  /\ LastCall.policy = "interleaved"
  /\ \E p \in OpPositions :
       LET op == tbs[p[1]][p[2]].ops[p[3]]
       IN  /\ op.src.buffer = "input" /\ op.src.size = 2 /\ op.src.index = 1
           /\ op.dst.buffer = "a"
           /\ GetKey(instanced_tbs[op.rank],
                     tbs[p[1]][p[2]].id * LastCall.instances + 1).ops[p[3]].src.index = 4

\* lower_pt1 has returned before the c-th call
LoweredPt1Before(c) ==
  \E b \in 1 .. (c - 1) : calls[b].call = "lower_pt1" /\ calls[b].ok

\* C12: a lower_pt2 call made before lower_pt1 has run, and a buffer
\* lowering made before the dependency inference of lower_pt1, end in an
\* error instead of producing a result.
C12_RejectsOutOfOrder ==
  \A c \in 1 .. Len(calls) :
    (calls[c].call \in {"lower_pt2", "_lower_buffers"} /\ ~LoweredPt1Before(c))
      => ~calls[c].ok

\* the buffers were lowered by _lower_buffers or lower_pt1
BuffersLowered ==
  \E c \in 1 .. Len(calls) : calls[c].call \in {"_lower_buffers", "lower_pt1"} /\ calls[c].ok

\* the positions of rank r's scratch buffers, in declaration order
ScratchAt(r) ==
  {j \in 1 .. Len(buffers[r]) : buffers[r][j].key \notin {"input", "output"}}

\* C13: after buffer lowering with instance count N, on every rank the first
\* scratch buffer in declaration order has offset 0, each next one starts
\* where the previous one's instance_size * N slots end, so the regions of
\* two scratch buffers of a rank are disjoint; input and output buffers get
\* no offset.
C13_ScratchOffsets ==
  BuffersLowered =>
    \A r \in Ranks :
      LET N == calls[1].instances
          b == buffers[r]
          S == ScratchAt(r)
      IN  /\ \A j \in S :
                IF \A h \in S : j <= h
                THEN b[j].offset = 0
                ELSE LET h == Max({x \in S : x < j})
                     IN  b[j].offset = b[h].offset + b[h].size * N
          /\ \A j \in S : \A h \in S \ {j} :
                \/ b[j].offset + b[j].size * N <= b[h].offset
                \/ b[h].offset + b[h].size * N <= b[j].offset
          /\ \A j \in (1 .. Len(b)) \ S : b[j].offset = -1

\* two instances: the second scratch buffer of rank 0 starts at 4, with the
\* output buffer declared between the two
C13_Witness ==
  /\ BuffersLowered
  /\ calls[1].instances = 2
  /\ buffers[0][2].key = "a" /\ buffers[0][2].offset = 0
  /\ buffers[0][3].key = "output"
  /\ buffers[0][4].key = "b" /\ buffers[0][4].offset = 4

\* ---- fusion claims, on the states of SpecForward and Spec
\* What a fusion leaves of node k: its kind, destination and pairing, and
\* whether it was excised
FusionView(g) ==
  [k \in Nodes(g) |->
     [inst |-> g[k].inst, dst |-> g[k].dst, recv_match |-> g[k].recv_match,
      send_match |-> g[k].send_match,
      excised |-> g[k].inst = "send" /\ g[k].prev = {}]]

\* every result optimize() may give on the built graph, over the orders its
\* successor sets may be listed in
FusionOutcomes ==
  {FusionView(g) : g \in UNION {optimize(l) : l \in Listings(nodes, operations)}}

\* C14: the result of optimize() (the rewritten nodes with their kind,
\* destination and pairing, and the excised sends) is one and the same for
\* every order the successor sets of the built graph are iterated in.
C14_FusionDeterministic ==
  (pc = "build" /\ UnmatchedSends = {} /\ nodes # <<>>)
    => Cardinality(FusionOutcomes) = 1

NoDuplicate(q) == \A i, j \in 1 .. Len(q) : i # j => q[i] # q[j]

\* the send x is excised by this step of a fusion pass
ExcisedNow(x) ==
  /\ pc \in {"rrcs", "rcs"}
  /\ nodes[x].inst = "send"
  /\ nodes[x].prev # {}
  /\ nodes'[x].prev = {}

\* C15: when a fusion rewrite removes a send x, x is left in no node's
\* successors or predecessors and has no edges itself, every former
\* predecessor of x is linked both ways to every former successor of x, no
\* successor list has a duplicate, and every edge between two other nodes is
\* kept.
C15_Excision ==
  [][\A x \in Nodes(nodes) :
       ExcisedNow(x) =>
         /\ nodes'[x].next = <<>>
         /\ \A k \in Nodes(nodes') : x \notin Succ(nodes', k) /\ x \notin nodes'[k].prev
         /\ \A p \in nodes[x].prev : \A n \in Succ(nodes, x) :
              n \in Succ(nodes', p) /\ p \in nodes'[n].prev
         /\ \A k \in Nodes(nodes') : NoDuplicate(nodes'[k].next)
         /\ \A a \in Nodes(nodes) \ {x} : \A b \in Nodes(nodes) \ {x} :
              /\ b \in Succ(nodes, a) => b \in Succ(nodes', a)
              /\ a \in nodes[b].prev => a \in nodes'[b].prev]_vars

\* a send with a successor was excised: its predecessor is now linked both
\* ways to that successor, and the send is in nobody's edge sets
C15_Witness ==
  /\ pc \in {"rrcs", "rcs"}
  /\ \E x \in Nodes(nodes0) :
       /\ Excised(x)
       /\ \E p \in nodes0[x].prev : \E n \in Succ(nodes0, x) :
            /\ n \notin Succ(nodes0, p)
            /\ n \in Succ(nodes, p)
            /\ p \in nodes[n].prev
       /\ \A k \in Nodes(nodes) : x \notin Succ(nodes, k) /\ x \notin nodes[k].prev

\* the send s qualifies for fusion into o: same unit, size and destination
\* buffer and index
Qualifies(o, s) ==
  /\ s.inst = "send"
  /\ s.tb = o.tb
  /\ s.src.size = o.src.size
  /\ s.dst.buffer = o.dst.buffer
  /\ s.dst.index = o.dst.index

IsExcised(ns, k) == ns[k].prev = {} /\ ns[k].next = <<>>

\* this step is the recv_reduce_copy pass visiting k
RrcsVisits(k) == pc = "rrcs" /\ pc' = "rrcs" /\ k \in visited' \ visited

\* k is a recv_reduce_copy node with one successor, a qualifying send
FusableRrc(k) ==
  /\ nodes[k].inst = "recv_reduce_copy"
  /\ Len(nodes[k].next) = 1
  /\ Qualifies(nodes[k], nodes[nodes[k].next[1]])

\* the kind the documentation gives the node fused with the send S
FusedKind(S) ==
  IF Len(nodes[S].next) = 1 /\ nodes[nodes[S].next[1]].inst = "recv"
  THEN "recv_reduce_send"
  ELSE "recv_reduce_copy_send"

RrcsStep(k) ==
  /\ (nodes[k].inst = "send" /\ nodes[k].prev = {}) => nodes'[k] = nodes[k]
  /\ (FusableRrc(k) /\ RrcsVisits(k)) =>
       /\ nodes'[k].inst = FusedKind(nodes[k].next[1])
       /\ IsExcised(nodes', nodes[k].next[1])
       /\ ~IsExcised(nodes, nodes[k].next[1])
  /\ (nodes[k].inst = "recv_reduce_copy" /\ ~RrcsVisits(k)) =>
       nodes'[k].inst = "recv_reduce_copy"
  /\ (nodes[k].inst = "recv_reduce_copy" /\ Len(nodes[k].next) # 1) =>
       nodes'[k].inst = "recv_reduce_copy"

\* C16: when the recv_reduce_copy pass visits a recv_reduce_copy node whose
\* only successor is a qualifying send, the node becomes recv_reduce_send if
\* the send's only successor is a recv and recv_reduce_copy_send otherwise,
\* and the send is excised; an excised send is not touched again; a
\* recv_reduce_copy node with no or several successors is left as it is, and
\* no other step rewrites a recv_reduce_copy node.
C16_RrcsRules ==
  [][\A k \in Nodes(nodes) : pc \in {"rrcs", "rcs"} => RrcsStep(k)]_vars

\* a recv_reduce_copy whose send was followed by a recv has become a
\* recv_reduce_send, and the send is gone
C16_Witness ==
  /\ "optimize" \in done
  /\ \E k \in Nodes(nodes) :
       /\ nodes0[k].inst = "recv_reduce_copy"
       /\ nodes[k].inst = "recv_reduce_send"
       /\ Len(nodes0[k].next) = 1
       /\ IsExcised(nodes, nodes0[k].next[1])
       /\ nodes0[nodes0[nodes0[k].next[1]].next[1]].inst = "recv"

C16_WitnessRrcs ==
  /\ "optimize" \in done
  /\ \E k \in Nodes(nodes) :
       /\ nodes0[k].inst = "recv_reduce_copy"
       /\ nodes[k].inst = "recv_reduce_copy_send"

FusedKinds == {"recv_copy_send", "recv_reduce_send", "recv_reduce_copy_send"}

\* op was fused with the send S: S is excised and op carries its pairing
FusedWith(op, S) ==
  /\ nodes[op].inst \in FusedKinds
  /\ nodes0[op].inst \notin FusedKinds
  /\ Excised(S)
  /\ nodes0[S].recv_match = nodes[op].recv_match

\* C17: a node is fused with a send only if the two have the same unit id
\* and the same channel, the same size and the same destination buffer and
\* index; a pair on different channels is never fused.
C17_FusedSameUnitAndChannel ==
  Optimizing =>
    \A op \in Nodes(nodes0) : \A S \in Nodes(nodes0) :
      FusedWith(op, S) =>
        /\ nodes0[op].tb = nodes0[S].tb
        /\ nodes0[op].channel = nodes0[S].channel
        /\ nodes0[op].src.size = nodes0[S].src.size
        /\ nodes0[op].dst.buffer = nodes0[S].dst.buffer
        /\ nodes0[op].dst.index = nodes0[S].dst.index

\* the nodes that lead to k: its predecessors and, for a paired recv, the
\* send it is paired with
LeadsTo(ns, k) ==
  ns[k].prev \cup (IF RecvFamily(ns[k]) /\ ns[k].send_match # None
                   THEN {ns[k].send_match} ELSE {})

\* C18: on an acyclic graph the metadata pass returns, every start node it
\* reached has chunk_step -1 and every other node it reached has chunk_step
\* 1 + the greatest chunk_step of the nodes that lead to it; no chunk_step
\* is below the value it had before the walk.
C18_ChunkStep ==
  ("metadata" \in done /\ Acyclic(nodes)) =>
    /\ pc = "ready"
    /\ \A k \in DfsReached(nodes, operations) :
         /\ nodes[k].chunk_step >= -1
         /\ IF nodes[k].inst = "start"
            THEN nodes[k].chunk_step = -1
            ELSE /\ LeadsTo(nodes, k) # {}
                 /\ nodes[k].chunk_step =
                      1 + Max({nodes[p].chunk_step : p \in LeadsTo(nodes, k)})

\* a node was reached twice by the walk, first along the shorter way: its
\* chunk_step is that of the longer one
C18_Witness ==
  /\ "metadata" \in done
  /\ pc = "ready"
  /\ Acyclic(nodes)
  /\ \E k \in DfsReached(nodes, operations) :
       \E p \in LeadsTo(nodes, k) : \E q \in LeadsTo(nodes, k) :
         /\ nodes[p].inst = "start"
         /\ nodes[q].chunk_step >= 1
         /\ nodes[k].chunk_step = nodes[q].chunk_step + 1

\* the last call was a replicate(N, policy) with N > 1, returned or not
ReplicateCalled ==
  /\ Len(calls) > 0
  /\ LastCall.call = "replicate"
  /\ LastCall.instances > 1

\* the j-th unit of rank r has its clone of instance i among rank r's
\* replicated units: id t * N + i, channel max_channels * i + c, one clone
\* per op in the same order with the same kind, rank and step
UnitCloned(r, j, i, N) ==
  LET tb == tbs[r][j]
  IN  /\ HasKey(instanced_tbs[r], tb.id * N + i)
      /\ LET itb == GetKey(instanced_tbs[r], tb.id * N + i)
         IN  /\ itb.channel = Max({num_channels[x] : x \in Ranks}) * i + tb.channel
             /\ Len(itb.ops) = Len(tb.ops)
             /\ \A s \in 1 .. Len(tb.ops) :
                  /\ itb.ops[s].inst = tb.ops[s].inst
                  /\ itb.ops[s].rank = tb.ops[s].rank
                  /\ itb.ops[s].step = tb.ops[s].step

\* C19: replicate(N, policy) with N > 1 returns with, for every rank r, every
\* unit of r (a unit without ops too) and every instance i, a unit
\* t * N + i on channel max_channels * i + c among rank r's replicated units
\* that holds the clones of the unit's ops in order; two clones of a rank
\* never share an id, and no clone is stored under another rank.
C19_UnitsCloned ==
  ReplicateCalled =>
    /\ LastCall.ok
    /\ \A r \in Ranks : \A j \in 1 .. Len(tbs[r]) :
         \A i \in 0 .. (LastCall.instances - 1) :
           UnitCloned(r, j, i, LastCall.instances)
    /\ \A r \in Ranks :
         /\ Len(instanced_tbs[r]) = Len(tbs[r]) * LastCall.instances
         /\ \A j \in 1 .. Len(instanced_tbs[r]) :
              \A s \in 1 .. Len(instanced_tbs[r][j].ops) :
                instanced_tbs[r][j].ops[s].rank = r

\* every unit has an op
NoEmptyUnit == \A r \in Ranks : \A j \in 1 .. Len(tbs[r]) : Len(tbs[r][j].ops) > 0

C19_UnitsClonedNonEmpty == NoEmptyUnit => C19_UnitsCloned

\* C20: after replicate(N, policy) with N > 1, the clone at instance i of
\* every op has as many dependencies as the op, and its k-th dependency is
\* the clone at instance i of the op's k-th dependency: the node at that
\* dependency's step in unit dep.tb * N + i of the op's rank. It is a node
\* of the replicated units and of instance i, never of another instance.
C20_DependsCloned ==
  Replicated =>
    \A p \in OpPositions : \A i \in 0 .. (LastCall.instances - 1) :
      LET N == LastCall.instances
          tb == tbs[p[1]][p[2]]
          op == tb.ops[p[3]]
          iop == GetKey(instanced_tbs[op.rank], tb.id * N + i).ops[p[3]]
      IN  /\ Len(iop.depends) = Len(op.depends)
          /\ \A k \in 1 .. Len(op.depends) :
               LET d == op.depends[k]
                   c == iop.depends[k]
               IN  /\ c = <<d[1], d[2] * N + i, d[3]>>
                   /\ c = <<op.rank, TbOp(d).tb * N + i, TbOp(d).step + 1>>
                   /\ HasKey(instanced_tbs[c[1]], c[2])
                   /\ c[3] <= Len(GetKey(instanced_tbs[c[1]], c[2]).ops)
                   /\ c[2] % N = i

\* an op with two dependencies, in another unit and in its own, was cloned
\* into instance 1
C20_Witness ==
  /\ Replicated
  /\ \E p \in OpPositions :
       LET tb == tbs[p[1]][p[2]]
           op == tb.ops[p[3]]
           iop == GetKey(instanced_tbs[op.rank], tb.id * LastCall.instances + 1).ops[p[3]]
       IN  /\ Len(op.depends) = 2
           /\ op.depends[1][2] # tb.id
           /\ op.depends[2][2] = tb.id
           /\ iop.depends[1][2] = op.depends[1][2] * LastCall.instances + 1

\* ---- registry claims, on the states of SpecRestart and SpecBuild
\* C21: whatever construction calls were made, add_start on a written slot
\* among them, every op the builder made that is no start op is reached along
\* next from an op of self.operations.
C21_RegistryReaches ==
  pc # "failed" =>
    \A k \in Nodes(nodes) :
      nodes[k].inst # "start" => k \in InGraph(nodes, operations)

\* C21, its consequence: once _infer_dependencies has run, every op holds the
\* depends list its prev gives.
C21_DependsInferred ==
  (pc = "ready" /\ "infer" \in done) =>
    \A k \in Nodes(nodes) :
      nodes[k].inst # "start" => nodes[k].depends \in DependsOf(nodes, k)

\* An op made after the second add_start whose only predecessor hangs off the
\* start op that add_start replaced, with inference done.
C21_Unvisited ==
  /\ pc = "ready"
  /\ "infer" \in done
  /\ \E k \in Nodes(nodes) :
       /\ k \notin InGraph(nodes, operations)
       /\ \E d \in nodes[k].prev : nodes[d].inst # "start"
       /\ nodes[k].depends = <<>>

\* ---- pipeline claims, on the states of SpecPipeline
\* The pipeline has run lower_pt1, then optimize.
Pipelined == pc = "ready" /\ {"infer", "optimize"} \subseteq done

\* C22: with lower_pt1, optimize and lower_pt2 run in this order, every entry
\* of the depends list of a node that survived fusion is a node that
\* survived fusion: no entry is a send that a rewrite excised.
C22_DependsSurvive ==
  Pipelined =>
    \A k \in Nodes(nodes) :
      ~Excised(k) => \A i \in DOMAIN nodes[k].depends : ~Excised(nodes[k].depends[i])

\* A surviving node whose depends names an excised send, lower_pt2 done.
C22_StaleDepends ==
  /\ Pipelined
  /\ \E c \in 1 .. Len(calls) : calls[c].call = "lower_pt2"
  /\ \E k \in Nodes(nodes) :
       /\ ~Excised(k)
       /\ \E i \in DOMAIN nodes[k].depends : Excised(nodes[k].depends[i])

====
